---- MODULE Spec2Model ----
(***************************************************************************)
(* Model of the collection routes of mongo-express (src/app.js, lines      *)
(* 148-662): the query builders (_getQuery, _getSort, _getProjection,      *)
(* _getQueryOptions, _getQueryAggregate), the pagination arithmetic, the   *)
(* oversized-payload redactor and the request handlers that use them.      *)
(*                                                                         *)
(* JavaScript values are records tagged by t.  Strings the code parses     *)
(* character by character (value, skip, sort tokens) are sequences of      *)
(* one-character strings; object keys and opaque texts are TLA+ strings.   *)
(***************************************************************************)
EXTENDS Integers, Sequences, FiniteSets, TLC

VARIABLES
    breq,     \* SpecBuild: the request handed to the builders
    bout,     \* SpecBuild: what the builders returned for breq
    pin,      \* SpecPage: skip, limit and total count handed to the pagination
    pout,     \* SpecPage: the pagination values computed from pin
    rin,      \* SpecRedact: a returned document and the two thresholds
    rout,     \* SpecRedact: the document after the field pass and after both passes
    config,   \* config.options of the running server
    store,    \* the collection in the document store
    pc,       \* position of the in-flight handler
    handler,  \* which handler is in flight
    loc,      \* the handler's local variables
    session,  \* req.session: error and success message slots
    res,      \* responses sent for the in-flight request, in order
    calls,    \* store operations invoked by the in-flight request, in order
    escaped   \* TRUE when an exception left the handler uncaught

handlerVars == <<config, store, pc, handler, loc, session, res, calls, escaped>>
vars == <<breq, bout, pin, pout, rin, rout,
          config, store, pc, handler, loc, session, res, calls, escaped>>

(***************************************************************************)
(* JavaScript values                                                       *)
(***************************************************************************)
Undefined == [t |-> "undefined"]
Null == [t |-> "null"]
NaN == [t |-> "NaN"]
Num(n) == [t |-> "number", n |-> n]
Str(s) == [t |-> "string", s |-> s]
Lit(x) == [t |-> "string", lit |-> x]
Obj(e) == [t |-> "object", ent |-> e]
Arr(e) == [t |-> "array", ent |-> e]
ObjectId(s) == [t |-> "ObjectId", hex |-> s]
RegExp(s, f) == [t |-> "RegExp", source |-> s, flags |-> f]
Binary(b, st) == [t |-> "Binary", bytes |-> b, sub_type |-> st]
KV(k, v) == [k |-> k, v |-> v]

Ok(v) == [ok |-> TRUE, val |-> v]
Throw(m) == [ok |-> FALSE, message |-> m]

\* a key count that only objects have
ObjectKeysLengthOfObjects(v) ==
    CASE v.t = "object" -> Len(v.ent)
      [] OTHER -> 0

\* Object.keys(v).length
ObjectKeysLength(v) ==
    CASE v.t = "object" -> Len(v.ent)
      [] v.t = "array" -> Len(v.ent)
      [] v.t = "string" /\ "s" \in DOMAIN v -> Len(v.s)
      [] OTHER -> 0

IsArray(v) == v.t = "array"

(***************************************************************************)
(* Character-level parsing                                                 *)
(***************************************************************************)
DigitVal == [c \in {"0", "1", "2"} |-> CASE c = "0" -> 0 [] c = "1" -> 1 [] c = "2" -> 2]
IsDigit(c) == c \in DOMAIN DigitVal
IsHex(c) == IsDigit(c) \/ c \in {"a", "b"}

RECURSIVE DigitsValue(_)
DigitsValue(s) ==
    IF s = <<>> THEN 0
    ELSE 10 * DigitsValue(SubSeq(s, 1, Len(s) - 1)) + DigitVal[s[Len(s)]]

AllDigits(s) == s # <<>> /\ \A i \in 1..Len(s) : IsDigit(s[i])

\* the longest prefix of s made of digits
RECURSIVE DigitPrefix(_)
DigitPrefix(s) ==
    IF s = <<>> \/ ~IsDigit(Head(s)) THEN <<>>
    ELSE <<Head(s)>> \o DigitPrefix(Tail(s))

\* Number(s) for a non-empty s over the alphabet of the samples
NumberOf(s) ==
    IF AllDigits(s) THEN Num(DigitsValue(s))
    ELSE IF Len(s) > 1 /\ s[1] = "-" /\ AllDigits(Tail(s)) THEN Num(0 - DigitsValue(Tail(s)))
    ELSE NaN

\* Number.parseInt(s, 10): an optional sign, then the longest digit prefix
ParseInt(s) ==
    LET neg == s # <<>> /\ s[1] = "-"
        body == IF neg THEN Tail(s) ELSE s
        digits == DigitPrefix(body)
    IN  IF digits = <<>> THEN NaN
        ELSE Num(IF neg THEN 0 - DigitsValue(digits) ELSE DigitsValue(digits))

\* JSON.parse(s): over the alphabet of the samples the only JSON texts are
\* the number literals -?(0|[1-9][0-9]*)
JsonParse(s) ==
    LET body == IF s # <<>> /\ s[1] = "-" THEN Tail(s) ELSE s
    IN  IF AllDigits(body) /\ (Len(body) = 1 \/ body[1] # "0")
        THEN Ok(NumberOf(s))
        ELSE Throw("Unexpected token in JSON")

\* value.replace(/-/g, '')
RECURSIVE StripHyphens(_)
StripHyphens(s) ==
    IF s = <<>> THEN <<>>
    ELSE IF Head(s) = "-" THEN StripHyphens(Tail(s))
    ELSE <<Head(s)>> \o StripHyphens(Tail(s))

\* Buffer.from(s, 'hex'): decodes pairs of hex digits and stops at the first
\* pair that is not one; nothing is thrown
RECURSIVE HexDecode(_)
HexDecode(s) ==
    IF Len(s) < 2 \/ ~IsHex(s[1]) \/ ~IsHex(s[2]) THEN <<>>
    ELSE <<(<<s[1], s[2]>>)>> \o HexDecode(SubSeq(s, 3, Len(s)))

ObjectIdLen == 24

\* bson.parseObjectId: an ObjectId from exactly 24 hex characters, else it throws
parseObjectId(s) ==
    IF Len(s) = ObjectIdLen /\ \A i \in 1..Len(s) : IsHex(s[i])
    THEN Ok(ObjectId(s))
    ELSE Throw("Invalid ObjectId")

\* new RegExp(s, 'i'): over the alphabet of the samples a pattern is malformed
\* exactly when it has a "(" (no ")" exists to close it)
NewRegExp(s) ==
    IF \E i \in 1..Len(s) : s[i] = "("
    THEN Throw("Invalid regular expression")
    ELSE Ok(RegExp(s, "i"))

LowerToUpper == [c \in {"j", "n", "s"} |-> CASE c = "j" -> "J" [] c = "n" -> "N" [] c = "s" -> "S"]

\* req.query.type?.toUpperCase() on the one-letter type tags
toUpperCase(c) == IF c \in DOMAIN LowerToUpper THEN LowerToUpper[c] ELSE c

(***************************************************************************)
(* bson.toSafeBSON: the external safe-expression evaluator.  It is opaque   *)
(* to this code: a text either evaluates to a structured value or to null.  *)
(***************************************************************************)
toSafeBSON(text) ==
    CASE text = "{a:1}" -> Obj(<<KV("a", Num(1))>>)
      [] text = "{}" -> Obj(<<>>)
      [] text = "[]" -> Arr(<<>>)
      [] text = "[{$match:{a:2}}]" -> Arr(<<Obj(<<KV("$match", Obj(<<KV("a", Num(2))>>))>>)>>)
      [] text = "[{$limit:1}]" -> Arr(<<Obj(<<KV("$limit", Num(1))>>)>>)
      [] OTHER -> Null

(***************************************************************************)
(* The builders                                                            *)
(***************************************************************************)
ConverterTags == {"J", "N", "O", "R", "U", "S"}

\* converters[type](value), src/app.js 163-188
Convert(type, value) ==
    CASE type = "J" -> JsonParse(value)
      [] type = "N" -> Ok(NumberOf(value))
      [] type = "O" -> parseObjectId(value)
      [] type = "R" -> NewRegExp(value)
      [] type = "U" -> Ok(Binary(HexDecode(StripHyphens(value)), 4))
      [] type = "S" -> Ok(Str(value))

\* a builder that passes the value on as a string when the type tag is unknown
_getQueryLenientType(req) ==
    IF req.key # "" /\ req.value # <<>>
    THEN LET type == toUpperCase(req.type)
             c == IF type \in ConverterTags THEN Convert(type, req.value) ELSE Ok(Str(req.value))
         IN  IF c.ok THEN Ok(Obj(<<KV(req.key, c.val)>>)) ELSE c
    ELSE IF req.query # ""
         THEN LET result == toSafeBSON(req.query)
              IN  IF result = Null THEN Throw("Query entered is not valid") ELSE Ok(result)
         ELSE Ok(Obj(<<>>))

\* a builder that lets the textual query win over the key/value pair
_getQueryTextFirst(req) ==
    IF req.query # ""
    THEN LET result == toSafeBSON(req.query)
         IN  IF result = Null THEN Throw("Query entered is not valid") ELSE Ok(result)
    ELSE IF req.key # "" /\ req.value # <<>>
         THEN LET type == toUpperCase(req.type)
              IN  IF type \notin ConverterTags
                  THEN Throw("Invalid query type")
                  ELSE LET c == Convert(type, req.value)
                       IN  IF c.ok THEN Ok(Obj(<<KV(req.key, c.val)>>)) ELSE c
         ELSE Ok(Obj(<<>>))

_getQuery(req) ==
    IF req.key # "" /\ req.value # <<>>
    THEN LET type == toUpperCase(req.type)
         IN  IF type \notin ConverterTags
             THEN Throw("Invalid query type")
             ELSE LET c == Convert(type, req.value)
                  IN  IF c.ok THEN Ok(Obj(<<KV(req.key, c.val)>>)) ELSE c
    ELSE IF req.query # ""
         THEN LET result == toSafeBSON(req.query)
              IN  IF result = Null THEN Throw("Query entered is not valid") ELSE Ok(result)
         ELSE Ok(Obj(<<>>))

\* req.query.sort is a sequence of (field, direction token) pairs
_getSort(req) ==
    Obj([i \in 1..Len(req.sort) |-> KV(req.sort[i].k, ParseInt(req.sort[i].v))])

_getProjection(req) ==
    IF req.projection # ""
    THEN LET p == toSafeBSON(req.projection) IN IF p = Null THEN Obj(<<>>) ELSE p
    ELSE Obj(<<>>)

documentsPerPage == 1

\* x || 0 for the result of Number.parseInt
OrZero(x) == IF x = NaN \/ x = Num(0) THEN Num(0) ELSE x

_getQueryOptions(req) ==
    [sort |-> _getSort(req),
     limit |-> Num(documentsPerPage),
     skip |-> OrZero(ParseInt(req.skip)),
     projection |-> _getProjection(req)]

\* the leading stages, src/app.js 241-245
MatchStagesAlwaysSpread(req, query) ==
    IF IsArray(query)
    THEN query.ent
    ELSE IF ObjectKeysLength(query) > 0
         THEN <<Obj(<<KV("$match", query)>>)>>
         ELSE <<>>

MatchStages(req, query) ==
    IF req.runAggregate = "on" /\ IsArray(query)
    THEN query.ent
    ELSE IF ObjectKeysLength(query) > 0
         THEN <<Obj(<<KV("$match", query)>>)>>
         ELSE <<>>

\* src/app.js 246-248
SortStages(queryOptions) ==
    IF ObjectKeysLength(queryOptions.sort) > 0
    THEN <<Obj(<<KV("$sort", queryOptions.sort)>>)>>
    ELSE <<>>

\* src/app.js 249-251
ProjectStages(queryOptions) ==
    IF ObjectKeysLength(queryOptions.projection) > 0
    THEN <<Obj(<<KV("$project", queryOptions.projection)>>)>>
    ELSE <<>>

\* the second pipeline stage, src/app.js 255-260
CountSliceStage(queryOptions) ==
    Obj(<<KV("$project", Obj(<<
        KV("metadata.total", Obj(<<KV("$size", Lit("$data"))>>)),
        KV("data", Obj(<<KV("$slice",
            Arr(<<Lit("$data"), queryOptions.skip, queryOptions.limit>>))>>))>>))>>)

FacetStage(data) == Obj(<<KV("$facet", Obj(<<KV("data", Arr(data))>>))>>)

_getQueryAggregateProjectFirst(req, query, queryOptions) ==
    Arr(<<
        FacetStage(MatchStages(req, query) \o ProjectStages(queryOptions)
                   \o SortStages(queryOptions)),
        CountSliceStage(queryOptions)
    >>)

_getQueryAggregate(req, query, queryOptions) ==
    Arr(<<
        FacetStage(MatchStages(req, query) \o SortStages(queryOptions)
                   \o ProjectStages(queryOptions)),
        CountSliceStage(queryOptions)
    >>)

(***************************************************************************)
(* Pagination, src/app.js 292-312                                          *)
(***************************************************************************)
\* Math.round(num / den) for den > 0: the nearest integer, halves going up
MathRound(num, den) == (2 * num + den) \div (2 * den)

MathCeilAsFloor(num, den) == num \div den

\* Math.ceil(num / den) for den > 0
MathCeil(num, den) == 0 - ((0 - num) \div den)

Pagination(skip, limit, count) ==
    [prev |-> [page |-> MathRound(skip - limit, limit) + 1, skip |-> skip - limit],
     prev2 |-> [page |-> MathRound(skip - limit * 2, limit) + 1, skip |-> skip - limit * 2],
     next2 |-> [page |-> MathRound(skip + limit * 2, limit) + 1, skip |-> skip + limit * 2],
     next |-> [page |-> MathRound(skip + limit, limit) + 1, skip |-> skip + limit],
     here |-> MathRound(skip, limit) + 1,
     last |-> (MathCeil(count, limit) - 1) * limit,
     pagination |-> count > limit]

(***************************************************************************)
(* Sizes and serialized forms                                              *)
(***************************************************************************)
DigitChar == <<"0", "1", "2", "3", "4", "5", "6", "7", "8", "9">>

\* the decimal digits of n >= 0
RECURSIVE NatToChars(_)
NatToChars(n) ==
    IF n < 10 THEN <<DigitChar[n + 1]>>
    ELSE NatToChars(n \div 10) \o <<DigitChar[(n % 10) + 1]>>

IntToChars(n) == IF n < 0 THEN <<"-">> \o NatToChars(0 - n) ELSE NatToChars(n)

KeyChars ==
    [k \in {"_id", "a", "b", "attribu", "display", "humanSz", "maxSize", "preview", "roughSz"} |->
        CASE k = "_id" -> <<"_", "i", "d">>
          [] k = "a" -> <<"a">>
          [] k = "b" -> <<"b">>
          [] k = "attribu" -> <<"a", "t", "t", "r", "i", "b", "u">>
          [] k = "display" -> <<"d", "i", "s", "p", "l", "a", "y">>
          [] k = "humanSz" -> <<"h", "u", "m", "a", "n", "S", "z">>
          [] k = "maxSize" -> <<"m", "a", "x", "S", "i", "z", "e">>
          [] k = "preview" -> <<"p", "r", "e", "v", "i", "e", "w">>
          [] k = "roughSz" -> <<"r", "o", "u", "g", "h", "S", "z">>]

RECURSIVE SumSeq(_)
SumSeq(q) == IF q = <<>> THEN 0 ELSE Head(q) + SumSeq(Tail(q))

\* utils.roughSizeOfObject: 4 for a boolean, 2 per character of a string, 8
\* for a number, and for an object 8 per property plus the property's size
RECURSIVE roughSizeOfObject(_)
roughSizeOfObject(v) ==
    CASE v.t = "boolean" -> 4
      [] v.t = "string" -> 2 * Len(v.s)
      [] v.t \in {"number", "NaN"} -> 8
      [] v.t = "object" ->
            SumSeq([i \in 1..Len(v.ent) |-> 8 + roughSizeOfObject(v.ent[i].v)])
      [] v.t = "array" ->
            SumSeq([i \in 1..Len(v.ent) |-> 8 + roughSizeOfObject(v.ent[i])])
      [] OTHER -> 0

\* utils.bytesToSize: the size to three significant digits with its unit
bytesToSize(bytes) ==
    IF bytes = 0 THEN Str(<<"0", " ", "B", "y", "t", "e">>)
    ELSE IF bytes < 10 THEN Str(NatToChars(bytes) \o <<".", "0", "0">> \o <<" ", "B", "y", "t", "e", "s">>)
    ELSE IF bytes < 100 THEN Str(NatToChars(bytes) \o <<".", "0">> \o <<" ", "B", "y", "t", "e", "s">>)
    ELSE IF bytes < 1000 THEN Str(NatToChars(bytes) \o <<" ", "B", "y", "t", "e", "s">>)
    ELSE IF bytes < 9995
         THEN LET r == NatToChars((bytes + 5) \div 10)
              IN  Str(<<r[1], ".", r[2], r[3]>> \o <<" ", "K", "B">>)
    ELSE IF bytes < 99950
         THEN LET r == NatToChars((bytes + 50) \div 100)
              IN  Str(<<r[1], r[2], ".", r[3]>> \o <<" ", "K", "B">>)
    ELSE Str(NatToChars((bytes + 500) \div 1000) \o <<" ", "K", "B">>)

RECURSIVE JoinSeq(_, _)
JoinSeq(parts, sep) ==
    IF parts = <<>> THEN <<>>
    ELSE IF Len(parts) = 1 THEN parts[1]
    ELSE parts[1] \o sep \o JoinSeq(Tail(parts), sep)

\* JSON.stringify(v); a property whose value is undefined is left out
RECURSIVE JsonStringify(_)
JsonStringify(v) ==
    CASE v.t = "number" -> IntToChars(v.n)
      [] v.t = "string" -> <<"\"">> \o v.s \o <<"\"">>
      [] v.t = "boolean" -> IF v.b THEN <<"t", "r", "u", "e">> ELSE <<"f", "a", "l", "s", "e">>
      [] v.t = "object" ->
            LET kept == SelectSeq(v.ent, LAMBDA e : e.v.t # "undefined")
            IN  <<"{">>
                \o JoinSeq([i \in 1..Len(kept) |->
                              <<"\"">> \o KeyChars[kept[i].k] \o <<"\"", ":">>
                              \o JsonStringify(kept[i].v)], <<",">>)
                \o <<"}">>
      [] v.t = "array" ->
            <<"[">> \o JoinSeq([i \in 1..Len(v.ent) |-> JsonStringify(v.ent[i])], <<",">>)
            \o <<"]">>
      [] OTHER -> <<"n", "u", "l", "l">>

\* s.slice(0, n)
SliceFront(s, n) == SubSeq(s, 1, IF Len(s) < n THEN Len(s) ELSE n)

(***************************************************************************)
(* The oversized-payload redactor, src/app.js 317-348                      *)
(***************************************************************************)
PreviewLen == 25
RowFloor == 200
LargeProperty == <<"*", "*", "*", " ", "L", "A", "R", "G", "E", " ", "P", "R", "O", "P", "E", "R", "T", "Y", " ", "*", "*", "*">>
LargeRow == <<"*", "*", "*", " ", "L", "A", "R", "G", "E", " ", "R", "O", "W", " ", "*", "*", "*">>

\* item[prop]; undefined when the item has no such property
GetProp(item, prop) ==
    IF \E i \in 1..Len(item.ent) : item.ent[i].k = prop
    THEN item.ent[CHOOSE i \in 1..Len(item.ent) : item.ent[i].k = prop].v
    ELSE Undefined

SetProp(item, i, v) == Obj([item.ent EXCEPT ![i] = KV(item.ent[i].k, v)])

\* the stub written at src/app.js 321-329 and 337-345; item is the document as
\* it is when the stub is built
Stub(item, prop, display, maxSize) ==
    LET value == GetProp(item, prop)
    IN  Obj(<<KV("attribu", Str(KeyChars[prop])),
              KV("display", Str(display)),
              KV("humanSz", bytesToSize(roughSizeOfObject(value))),
              KV("maxSize", bytesToSize(maxSize)),
              KV("preview", Str(SliceFront(JsonStringify(value), PreviewLen))),
              KV("roughSz", Num(roughSizeOfObject(value))),
              KV("_id", GetProp(item, "_id"))>>)

\* the loop of src/app.js 319-331 from property i on
RECURSIVE FieldPassFrom(_, _, _)
FieldPassFrom(item, i, maxPropSize) ==
    IF i > Len(item.ent) THEN item
    ELSE IF roughSizeOfObject(item.ent[i].v) > maxPropSize
         THEN FieldPassFrom(SetProp(item, i, Stub(item, item.ent[i].k, LargeProperty, maxPropSize)),
                            i + 1, maxPropSize)
         ELSE FieldPassFrom(item, i + 1, maxPropSize)

FieldPass(item, maxPropSize) == FieldPassFrom(item, 1, maxPropSize)

\* the loop of src/app.js 335-347 from property i on
RECURSIVE RowPassFrom(_, _, _)
RowPassFrom(item, i, maxRowSize) ==
    IF i > Len(item.ent) THEN item
    ELSE IF item.ent[i].k # "_id" /\ roughSizeOfObject(item.ent[i].v) > RowFloor
         THEN RowPassFrom(SetProp(item, i, Stub(item, item.ent[i].k, LargeRow, maxRowSize)),
                          i + 1, maxRowSize)
         ELSE RowPassFrom(item, i + 1, maxRowSize)

\* a document pass that does not look at the document's size
RowPassAlways(item, maxRowSize) == RowPassFrom(item, 1, maxRowSize)

\* src/app.js 334-348
RowPass(item, maxRowSize) ==
    IF roughSizeOfObject(item) > maxRowSize THEN RowPassFrom(item, 1, maxRowSize) ELSE item

\* what the body of the loop over items does to one item
RedactItem(item, maxPropSize, maxRowSize) == RowPass(FieldPass(item, maxPropSize), maxRowSize)

(***************************************************************************)
(* Request parameters                                                      *)
(***************************************************************************)
Hex24 == [i \in 1..ObjectIdLen |-> "a"]
KeySamples == {"", "a"}
ValueSamples == {<<>>, <<"1">>, <<"-", "2">>, <<"1", "b">>, <<"(">>, Hex24}
TypeSamples == {"", "J", "n", "N", "O", "R", "U", "S", "Z"}
QuerySamples == {"", "{bad", "{}", "{a:1}", "[]", "[{$match:{a:2}}]", "[{$limit:1}]"}
FlagSamples == {"", "on"}
SkipSamples == {<<>>, <<"0">>, <<"2">>, <<"-", "1">>, <<"1", "b">>}
SortSamples == {<<>>, <<KV("a", <<"1">>)>>, <<KV("a", <<"b">>)>>, <<KV("a", <<"2">>)>>,
                <<KV("a", <<"-", "1">>), KV("_id", <<"1">>)>>}
ProjectionSamples == {"", "{bad", "{a:1}"}

Requests ==
    [key : KeySamples, value : ValueSamples, type : TypeSamples, query : QuerySamples,
     runAggregate : FlagSamples, skip : SkipSamples, sort : SortSamples,
     projection : ProjectionSamples]

NoRequest ==
    [key |-> "", value |-> <<>>, type |-> "", query |-> "", runAggregate |-> "",
     skip |-> <<>>, sort |-> <<>>, projection |-> ""]

(***************************************************************************)
(* SpecBuild: the builders applied to every request                        *)
(***************************************************************************)
\* what the synchronous head of viewCollection computes (src/app.js 267-269)
BuildAll(req) ==
    LET queryOptions == _getQueryOptions(req)
        queryBase == _getQuery(req)
    IN  [queryOptions |-> queryOptions,
         queryBase |-> queryBase,
         query |-> IF queryBase.ok
                   THEN Ok(_getQueryAggregate(req, queryBase.val, queryOptions))
                   ELSE queryBase]

HandlerIdle ==
    /\ config = [readOnly |-> FALSE, noDelete |-> FALSE]
    /\ store = [exists |-> TRUE, docs |-> <<>>]
    /\ pc = "idle"
    /\ handler = "none"
    /\ loc = [none |-> TRUE]
    /\ session = [error |-> "", success |-> ""]
    /\ res = <<>>
    /\ calls = <<>>
    /\ escaped = FALSE

NotBuilt == [built |-> FALSE]

BuildIdle == breq = NoRequest /\ bout = NotBuilt
PageIdle == pin = [skip |-> 0, limit |-> 1, count |-> 0] /\ pout = [computed |-> FALSE]
RedactIdle == rin = [item |-> Obj(<<>>), maxPropSize |-> 0, maxRowSize |-> 0]
                /\ rout = [redacted |-> FALSE]

InitBuild ==
    /\ breq \in Requests
    /\ bout = NotBuilt
    /\ PageIdle /\ RedactIdle /\ HandlerIdle

Build ==
    /\ bout = NotBuilt
    /\ bout' = BuildAll(breq)
    /\ UNCHANGED <<breq, pin, pout, rin, rout>>
    /\ UNCHANGED handlerVars

NextBuild == Build

SpecBuild == InitBuild /\ [][NextBuild]_vars

(***************************************************************************)
(* Properties of the builders (SpecBuild)                                  *)
(***************************************************************************)
Built == bout # NotBuilt
BuiltOk == Built /\ bout.queryBase.ok

\* the stages inside $facet.data of the assembled plan
PlanData == bout.query.val.ent[1].ent[1].v.ent[1].v.ent
\* the operator name and the argument of a single-key stage
StageOp(stage) == stage.ent[1].k
StageArg(stage) == stage.ent[1].v
HasSort == Len(bout.queryOptions.sort.ent) > 0
HasProjection == bout.queryOptions.projection.t \in {"object", "array"}
                    /\ Len(bout.queryOptions.projection.ent) > 0
\* the stages of the plan that precede the sort and projection stages
LeadingStages ==
    SubSeq(PlanData, 1,
           Len(PlanData) - (IF HasSort THEN 1 ELSE 0) - (IF HasProjection THEN 1 ELSE 0))
RawPipeline == breq.runAggregate = "on" /\ bout.queryBase.val.t = "array"

\* C5: the filter is used verbatim as the leading stages exactly when the
\* request sets runAggregate = 'on' and the filter is an array; in every other
\* case the filter contributes nothing or one $match stage holding the filter.
C5_RawPipelineOnlyOnOptIn ==
    BuiltOk =>
        IF RawPipeline
        THEN LeadingStages = bout.queryBase.val.ent
        ELSE \/ LeadingStages = <<>>
             \/ /\ Len(LeadingStages) = 1
                /\ StageOp(LeadingStages[1]) = "$match"
                /\ StageArg(LeadingStages[1]) = bout.queryBase.val

C5_Witness ==
    /\ BuiltOk
    /\ RawPipeline
    /\ Len(LeadingStages) = 1
    /\ StageOp(LeadingStages[1]) = "$limit"

FilterNonEmpty ==
    bout.queryBase.val.t \in {"object", "array"} /\ bout.queryBase.val.ent # <<>>

\* C6: for a request that is not a raw pipeline the plan is match, sort,
\* projection, count+slice in that order; match is there iff the filter is
\* non-empty, sort iff the sort is non-empty, projection iff the projection is
\* non-empty, and the count+slice stage is always the last stage and slices
\* with the options' skip and the configured page size.
C6_StageOrder ==
    (BuiltOk /\ ~RawPipeline) =>
        LET ops == [i \in 1..Len(PlanData) |-> StageOp(PlanData[i])]
            args == [i \in 1..Len(PlanData) |-> StageArg(PlanData[i])]
            plan == bout.query.val.ent
            last == plan[Len(plan)]
        IN  /\ ops = (IF FilterNonEmpty THEN <<"$match">> ELSE <<>>)
                     \o (IF HasSort THEN <<"$sort">> ELSE <<>>)
                     \o (IF HasProjection THEN <<"$project">> ELSE <<>>)
            /\ args = (IF FilterNonEmpty THEN <<bout.queryBase.val>> ELSE <<>>)
                      \o (IF HasSort THEN <<bout.queryOptions.sort>> ELSE <<>>)
                      \o (IF HasProjection THEN <<bout.queryOptions.projection>> ELSE <<>>)
            /\ Len(plan) = 2
            /\ StageOp(plan[1]) = "$facet"
            /\ StageOp(last) = "$project"
            /\ StageArg(last).ent[1] = KV("metadata.total", Obj(<<KV("$size", Lit("$data"))>>))
            /\ StageArg(last).ent[2] =
                   KV("data", Obj(<<KV("$slice", Arr(<<Lit("$data"), bout.queryOptions.skip,
                                                     Num(documentsPerPage)>>))>>))

C6_Witness ==
    /\ BuiltOk
    /\ ~RawPipeline
    /\ FilterNonEmpty /\ HasSort /\ HasProjection
    /\ Len(PlanData) = 3
    /\ bout.queryOptions.skip = Num(2)

\* C8: the options' limit is the configured page size whatever the request
\* says, and skip is a non-negative integer, 0 when the skip parameter is
\* absent or not a number.
C8_LimitFixedSkipNonNegative ==
    Built =>
        /\ bout.queryOptions.limit = Num(documentsPerPage)
        /\ bout.queryOptions.skip.t = "number"
        /\ bout.queryOptions.skip.n >= 0
        /\ (DigitPrefix(IF breq.skip # <<>> /\ breq.skip[1] = "-" THEN Tail(breq.skip)
                        ELSE breq.skip) = <<>>
                => bout.queryOptions.skip = Num(0))

MaxSkip == 7
MaxLimit == 3
MaxCount == 7

NotComputed == [computed |-> FALSE]

InitPage ==
    /\ pin \in [skip : (0 - MaxSkip)..MaxSkip, limit : 1..MaxLimit, count : 0..MaxCount]
    /\ pout = NotComputed
    /\ BuildIdle /\ RedactIdle /\ HandlerIdle

Paginate ==
    /\ pout = NotComputed
    /\ pout' = Pagination(pin.skip, pin.limit, pin.count)
    /\ UNCHANGED <<breq, bout, pin, rin, rout>>
    /\ UNCHANGED handlerVars

NextPage == Paginate

SpecPage == InitPage /\ [][NextPage]_vars

Paginated == pout # NotComputed
\* here = round(skip / limit) + 1: here - 1 is the integer nearest to
\* skip / limit, a half going up
HereIsRounded ==
    /\ 2 * pin.limit * (pout.here - 1) - pin.limit <= 2 * pin.skip
    /\ 2 * pin.skip < 2 * pin.limit * (pout.here - 1) + pin.limit
\* last is the skip offset of the final non-empty page
LastIsFinalPage ==
    /\ 0 <= pout.last
    /\ pout.last < (IF pin.count > 1 THEN pin.count ELSE 1)
    /\ pout.last % pin.limit = 0
    /\ pout.last + pin.limit >= pin.count

\* C3 as stated: for limit > 0, skip >= 0 and totalCount >= 0, here is
\* round(skip/limit) + 1 and last is the offset of the final non-empty page,
\* the case totalCount = 0 included.
C3_Original ==
    (Paginated /\ pin.skip >= 0) => (HereIsRounded /\ LastIsFinalPage)

\* C3 amended: the same for totalCount >= 1; for totalCount = 0 last is -limit.
C3_Pagination ==
    (Paginated /\ pin.skip >= 0) =>
        /\ HereIsRounded
        /\ pin.count >= 1 => LastIsFinalPage
        /\ pin.count = 0 => pout.last = 0 - pin.limit

C3_Witness ==
    /\ Paginated
    /\ pin = [skip |-> 3, limit |-> 2, count |-> 6]
    /\ pout.here = 3
    /\ pout.last = 4

(***************************************************************************)
(* SpecRedact: the redactor on sample documents and thresholds             *)
(***************************************************************************)
\* a string of n characters
Rep(c, n) == [i \in 1..n |-> c]
SmallLen == 10
LargeLen == 120
IdSamples == {Num(1), Str(Rep("b", SmallLen)), Str(Rep("b", LargeLen))}
FieldSamples == {Undefined, Num(2), Str(Rep("a", SmallLen)), Str(Rep("a", LargeLen))}
PropSizeSamples == {8, 100, 1000}
RowSizeSamples == {40, 300, 2000}

\* the properties that are there, in the given order
ItemOf(order, vals) ==
    Obj(SelectSeq([i \in 1..Len(order) |-> KV(order[i], vals[order[i]])],
                  LAMBDA e : e.v.t # "undefined"))

ItemSamples ==
    {ItemOf(order, [k \in {"_id", "a", "b"} |->
                        CASE k = "_id" -> id [] k = "a" -> a [] k = "b" -> b]) :
        order \in {<<"_id", "a", "b">>, <<"a", "_id", "b">>, <<"a", "b">>},
        id \in IdSamples, a \in FieldSamples, b \in FieldSamples}

NotRedacted == [redacted |-> FALSE]

InitRedact ==
    /\ rin \in [item : ItemSamples, maxPropSize : PropSizeSamples, maxRowSize : RowSizeSamples]
    /\ rout = NotRedacted
    /\ BuildIdle /\ PageIdle /\ HandlerIdle

Redact ==
    /\ rout = NotRedacted
    /\ rout' = [redacted |-> TRUE,
                fields |-> FieldPass(rin.item, rin.maxPropSize),
                item |-> RedactItem(rin.item, rin.maxPropSize, rin.maxRowSize),
                again |-> RedactItem(RedactItem(rin.item, rin.maxPropSize, rin.maxRowSize),
                                     rin.maxPropSize, rin.maxRowSize)]
    /\ UNCHANGED <<breq, bout, pin, pout, rin>>
    /\ UNCHANGED handlerVars

NextRedact == Redact

SpecRedact == InitRedact /\ [][NextRedact]_vars

Redacted == rout # NotRedacted
IsPrefix(p, q) == Len(p) <= Len(q) /\ SubSeq(q, 1, Len(p)) = p

\* C10: the field pass replaces every field whose estimated size exceeds
\* maxPropSize by a stub that carries the field's name, the size estimate of
\* the original value, the document's identifier and a preview that is a
\* prefix, at most 25 characters long, of the original value's serialized
\* form; every other field is left as it was.
C10_FieldPass ==
    Redacted =>
        /\ Len(rout.fields.ent) = Len(rin.item.ent)
        /\ \A i \in 1..Len(rin.item.ent) :
            LET before == rin.item.ent[i]
                after == rout.fields.ent[i]
            IN  /\ after.k = before.k
                /\ IF roughSizeOfObject(before.v) > rin.maxPropSize
                   THEN /\ after.v.t = "object"
                        /\ GetProp(after.v, "attribu") = Str(KeyChars[before.k])
                        /\ GetProp(after.v, "roughSz") = Num(roughSizeOfObject(before.v))
                        /\ GetProp(after.v, "_id") = GetProp(rin.item, "_id")
                        /\ GetProp(after.v, "preview").t = "string"
                        /\ Len(GetProp(after.v, "preview").s) <= PreviewLen
                        /\ IsPrefix(GetProp(after.v, "preview").s, JsonStringify(before.v))
                   ELSE after.v = before.v

\* the document pass found the document too large after the field pass
RowPassRan == roughSizeOfObject(rout.fields) > rin.maxRowSize

\* C11: the document pass works on the result of the field pass.  When that
\* result's size exceeds maxRowSize, every field other than _id whose size
\* exceeds the floor of 200 becomes a stub labelled '*** LARGE ROW ***' with
\* the document-level threshold, carrying the field's name and the size it had
\* after the field pass; _id and the fields at or below the floor stay as the
\* field pass left them.  When the size does not exceed maxRowSize the
\* document pass changes nothing.
C11_RowPass ==
    Redacted =>
        IF RowPassRan
        THEN /\ Len(rout.item.ent) = Len(rout.fields.ent)
             /\ \A i \in 1..Len(rout.fields.ent) :
                    LET before == rout.fields.ent[i]
                        after == rout.item.ent[i]
                    IN  /\ after.k = before.k
                        /\ IF before.k # "_id" /\ roughSizeOfObject(before.v) > RowFloor
                           THEN /\ after.v.t = "object"
                                /\ GetProp(after.v, "attribu") = Str(KeyChars[before.k])
                                /\ GetProp(after.v, "display") = Str(LargeRow)
                                /\ GetProp(after.v, "maxSize") = bytesToSize(rin.maxRowSize)
                                /\ GetProp(after.v, "roughSz") = Num(roughSizeOfObject(before.v))
                           ELSE after.v = before.v
        ELSE rout.item = rout.fields

\* the document pass ran on a document with an oversized _id that the field
\* pass let through, replaced one field and left a small one alone
C11_Witness ==
    /\ Redacted
    /\ RowPassRan
    /\ roughSizeOfObject(GetProp(rout.fields, "_id")) > RowFloor
    /\ GetProp(rout.item, "_id") = GetProp(rin.item, "_id")
    /\ GetProp(rout.item, "a").t = "object"
    /\ GetProp(GetProp(rout.item, "a"), "display") = Str(LargeRow)
    /\ GetProp(rout.item, "b") = Num(2)

\* C12: the redactor applied to its own output returns that output.
C12_Idempotent ==
    Redacted => rout.again = rout.item

(***************************************************************************)
(* The document store, as the handlers see it                              *)
(***************************************************************************)
\* does the document satisfy the equality filter
Matches(filter, doc) ==
    \A i \in 1..Len(filter.ent) : GetProp(doc, filter.ent[i].k) = filter.ent[i].v

\* d1 comes before d2 under the sort specification (fields hold numbers; a
\* missing field sorts first)
SortKey(doc, k) == IF GetProp(doc, k).t = "number" THEN GetProp(doc, k).n ELSE -1
RECURSIVE Before(_, _, _)
Before(d1, d2, sortEnt) ==
    IF sortEnt = <<>> THEN FALSE
    ELSE LET k == Head(sortEnt).k
             dir == Head(sortEnt).v.n
         IN  IF SortKey(d1, k) = SortKey(d2, k) THEN Before(d1, d2, Tail(sortEnt))
             ELSE (SortKey(d1, k) - SortKey(d2, k)) * dir < 0

\* stable insertion sort
RECURSIVE InsertSorted(_, _, _)
InsertSorted(d, sorted, sortEnt) ==
    IF sorted = <<>> THEN <<d>>
    ELSE IF Before(d, Head(sorted), sortEnt) THEN <<d>> \o sorted
    ELSE <<Head(sorted)>> \o InsertSorted(d, Tail(sorted), sortEnt)

RECURSIVE SortDocs(_, _)
SortDocs(docs, sortEnt) ==
    IF docs = <<>> THEN <<>>
    ELSE InsertSorted(docs[Len(docs)], SortDocs(SubSeq(docs, 1, Len(docs) - 1), sortEnt), sortEnt)

ValidSort(sort) ==
    /\ sort.t = "object"
    /\ \A i \in 1..Len(sort.ent) : sort.ent[i].v \in {Num(1), Num(-1)}

\* an inclusion projection keeps _id and the listed fields
ProjectDoc(doc, projection) ==
    Obj(SelectSeq(doc.ent, LAMBDA e : e.k = "_id" \/ GetProp(projection, e.k) = Num(1)))

ApplyStage(stage, docs) ==
    LET op == stage.ent[1].k
        arg == stage.ent[1].v
    IN  CASE op = "$match" /\ arg.t = "object" ->
                Ok(SelectSeq(docs, LAMBDA d : Matches(arg, d)))
          [] op = "$sort" /\ ValidSort(arg) -> Ok(SortDocs(docs, arg.ent))
          [] op = "$project" /\ arg.t = "object" ->
                Ok([i \in 1..Len(docs) |-> ProjectDoc(docs[i], arg)])
          [] op = "$limit" /\ arg.t = "number" /\ arg.n > 0 ->
                Ok(SubSeq(docs, 1, IF Len(docs) < arg.n THEN Len(docs) ELSE arg.n))
          [] OTHER -> Throw("the pipeline stage is rejected")

RECURSIVE RunStages(_, _)
RunStages(stages, docs) ==
    IF stages = <<>> THEN Ok(docs)
    ELSE LET r == ApplyStage(Head(stages), docs)
         IN  IF r.ok THEN RunStages(Tail(stages), r.val) ELSE r

\* {$slice: [array, position, n]}
SliceArray(array, position, n) ==
    LET start == IF position >= 0 THEN position
                 ELSE IF Len(array) + position > 0 THEN Len(array) + position ELSE 0
        stop == IF start + n < Len(array) THEN start + n ELSE Len(array)
    IN  SubSeq(array, start + 1, stop)

\* collection.aggregate(plan).toArray() for the plans _getQueryAggregate builds:
\* the $facet stage gathers data, the $project stage counts and slices it
Aggregate(docs, plan) ==
    LET data == RunStages(plan.ent[1].ent[1].v.ent[1].v.ent, docs)
        slice == plan.ent[2].ent[1].v.ent[2].v.ent[1].v.ent
    IN  IF ~data.ok THEN data
        ELSE IF slice[3].n <= 0 THEN Throw("$slice needs a positive count")
        ELSE Ok([data |-> SliceArray(data.val, slice[2].n, slice[3].n),
                 metadata |-> [total |-> Len(data.val)]])

\* collection.find(filter, options).toArray(): the matching documents in the
\* order of options.sort, less the first options.skip of them and cut to
\* options.limit when the options hold a skip or a positive limit
Find(docs, filter, options) ==
    IF filter.t # "object" THEN Throw("the filter is rejected")
    ELSE IF ~ValidSort(options.sort) THEN Throw("the sort is rejected")
    ELSE IF "skip" \in DOMAIN options /\ (options.skip.t # "number" \/ options.skip.n < 0)
    THEN Throw("the skip is rejected")
    ELSE LET sorted == SortDocs(SelectSeq(docs, LAMBDA d : Matches(filter, d)), options.sort.ent)
             from == IF "skip" \in DOMAIN options THEN options.skip.n ELSE 0
             rest == SubSeq(sorted, from + 1, Len(sorted))
             n == IF "limit" \in DOMAIN options /\ options.limit.n > 0 /\ options.limit.n < Len(rest)
                  THEN options.limit.n ELSE Len(rest)
         IN  Ok(SubSeq(rest, 1, n))

(***************************************************************************)
(* Spec: the request handlers against the store                            *)
(***************************************************************************)
MaxDocs == 2
DocSamples ==
    {Obj(<<KV("_id", Num(1)), KV("a", Num(1))>>),
     Obj(<<KV("_id", Num(2)), KV("a", Num(2))>>),
     Obj(<<KV("_id", Num(3)), KV("a", Num(1)), KV("b", Str(Rep("a", 6 * SmallLen)))>>)}

\* config.options.maxPropSize and maxRowSize of the running server
ViewMaxPropSize == 100
ViewMaxRowSize == 1000

\* The requests the handlers are run on.  A parameter a handler never reads,
\* or one that an absent parameter makes irrelevant, is left absent.
HandlerRequests ==
    {r \in Requests :
        /\ r.value \in {<<>>, <<"1">>, <<"1", "b">>}
        /\ r.key = "" => r.value = <<>>
        /\ r.type \in {"", "J", "N", "O", "S"}
        /\ r.value = <<>> => r.type = ""
        /\ r.query \in {"", "{bad", "{a:1}", "[{$limit:1}]"}
        /\ r.runAggregate = "on" => r.query = "[{$limit:1}]"
        /\ r.skip \in {<<>>, <<"1", "b">>, <<"-", "1">>}
        /\ r.sort \in {<<>>, <<KV("a", <<"-", "1">>), KV("_id", <<"1">>)>>}
        /\ r.projection = ""}
ViewRequests == HandlerRequests
ExportRequests == {r \in HandlerRequests : r.skip = <<>> /\ r.runAggregate = ""}
DeleteRequests == {r \in ExportRequests : r.sort = <<>>}

Init ==
    /\ config \in [readOnly : BOOLEAN, noDelete : BOOLEAN]
    /\ store = [exists |-> TRUE, docs |-> <<>>]
    /\ pc = "idle"
    /\ handler = "none"
    /\ loc = [none |-> TRUE]
    /\ session = [error |-> "", success |-> ""]
    /\ res = <<>>
    /\ calls = <<>>
    /\ escaped = FALSE
    /\ BuildIdle /\ PageIdle /\ RedactIdle

PureVarsUnchanged == UNCHANGED <<breq, bout, pin, pout, rin, rout, config>>

\* the catch blocks: record the message, redirect back
Catch(message) ==
    /\ session' = [session EXCEPT !.error = message]
    /\ res' = Append(res, "redirect back")
    /\ pc' = "done"

Call(op, arg) == calls' = Append(calls, [op |-> op, arg |-> arg])
LastCall == calls[Len(calls)]

\* the total count shown: metadata.total of the aggregate's result (src/app.js 279-282)
CountFromStats(resultArray, stats) == stats.count

ViewCount(resultArray, stats) == resultArray.metadata.total

\* viewCollection up to its first await (src/app.js 266-278)
ViewCollectionStart(req) ==
    /\ pc = "idle"
    /\ handler' = "viewCollection"
    /\ LET b == BuildAll(req)
       IN  IF ~b.queryBase.ok
           THEN /\ Catch(b.queryBase.message)
                /\ loc' = [req |-> req]
                /\ UNCHANGED calls
           ELSE /\ Call("aggregate", b.query.val)
                /\ loc' = [req |-> req, queryOptions |-> b.queryOptions]
                /\ pc' = "view_aggregate"
                /\ UNCHANGED <<session, res>>
    /\ UNCHANGED <<store, escaped>>
    /\ PureVarsUnchanged

\* the aggregate settles (src/app.js 278-283); a collection that is not there
\* yields no result row, and the destructuring throws
ViewAggregateReturn ==
    /\ pc = "view_aggregate"
    /\ \E fail \in BOOLEAN :
        LET r == IF fail THEN Throw("the store is unavailable")
                 ELSE IF ~store.exists THEN Throw("Cannot destructure property 'data'")
                 ELSE Aggregate(store.docs, LastCall.arg)
        IN  IF ~r.ok
            THEN /\ Catch(r.message)
                 /\ UNCHANGED <<loc, calls>>
            ELSE /\ loc' = [loc EXCEPT !.queryOptions = @] @@ [resultArray |-> r.val]
                 /\ Call("stats", Undefined)
                 /\ pc' = "view_stats"
                 /\ UNCHANGED <<session, res>>
    /\ UNCHANGED <<store, handler, escaped>>
    /\ PureVarsUnchanged

\* the stats settle (src/app.js 283-289)
ViewStatsReturn ==
    /\ pc = "view_stats"
    /\ \E fail \in BOOLEAN :
        IF fail
        THEN /\ Catch("the store is unavailable")
             /\ UNCHANGED <<loc, calls>>
        ELSE IF ~store.exists
        THEN /\ session' = [session EXCEPT !.error = "Collection not found!"]
             /\ res' = Append(res, "redirect back")
             /\ pc' = "done"
             /\ UNCHANGED <<loc, calls>>
        ELSE /\ loc' = loc @@ [stats |-> [count |-> Len(store.docs)]]
             /\ Call("indexes", Undefined)
             /\ pc' = "view_indexes"
             /\ UNCHANGED <<session, res>>
    /\ UNCHANGED <<store, handler, escaped>>
    /\ PureVarsUnchanged

\* the indexes settle; pagination, redaction and rendering (src/app.js 289-393)
ViewIndexesReturn ==
    /\ pc = "view_indexes"
    /\ \E fail \in BOOLEAN :
        IF fail
        THEN /\ Catch("the store is unavailable")
             /\ UNCHANGED loc
        ELSE LET items == loc.resultArray.data
                 count == ViewCount(loc.resultArray, loc.stats)
                 limit == loc.queryOptions.limit.n
                 skip == loc.queryOptions.skip.n
             IN  /\ loc' = loc @@
                        [ctx |-> [docs |-> [i \in 1..Len(items) |->
                                               RedactItem(items[i], ViewMaxPropSize, ViewMaxRowSize)],
                                  count |-> count,
                                  limit |-> limit,
                                  skip |-> skip,
                                  pages |-> Pagination(skip, limit, count)]]
                 /\ res' = Append(res, "render collection")
                 /\ pc' = "done"
                 /\ UNCHANGED session
    /\ UNCHANGED <<store, handler, calls, escaped>>
    /\ PureVarsUnchanged

ExportHandlers == {"exportCollection", "exportColArray", "exportCsv"}

\* export options that page like the view
ExportQueryOptionsPaged(req) == _getQueryOptions(req)

\* const queryOptions = { sort: exp._getSort(req) } (src/app.js 413, 435, 456)
ExportQueryOptions(req) == [sort |-> _getSort(req)]

\* an export handler up to its await (src/app.js 412-421, 434-437, 455-458)
ExportStart(h, req) ==
    /\ pc = "idle"
    /\ handler' = h
    /\ LET queryOptions == ExportQueryOptions(req)
           query == _getQuery(req)
       IN  IF ~query.ok
           THEN /\ Catch(query.message)
                /\ UNCHANGED calls
           ELSE /\ Call("find", [filter |-> query.val, options |-> queryOptions])
                /\ pc' = "export_find"
                /\ UNCHANGED <<session, res>>
    /\ loc' = [req |-> req]
    /\ UNCHANGED <<store, escaped>>
    /\ PureVarsUnchanged

\* the find settles.  exportColArray and exportCsv await toArray() inside the
\* try; exportCollection pipes a stream, whose failure is an 'error' event
\* raised after the handler has returned, with no listener
ExportFindReturn ==
    /\ pc = "export_find"
    /\ \E fail \in BOOLEAN :
        LET r == IF fail THEN Throw("the store is unavailable")
                 ELSE Find(store.docs, LastCall.arg.filter, LastCall.arg.options)
        IN  IF r.ok
            THEN /\ res' = Append(res, "download")
                 /\ loc' = loc @@ [items |-> r.val]
                 /\ pc' = "done"
                 /\ UNCHANGED <<session, escaped>>
            ELSE IF handler = "exportCollection"
            THEN /\ escaped' = TRUE
                 /\ pc' = "done"
                 /\ UNCHANGED <<session, res, loc>>
            ELSE /\ Catch(r.message)
                 /\ UNCHANGED <<loc, escaped>>
    /\ UNCHANGED <<store, handler, calls>>
    /\ PureVarsUnchanged

\* a guard that knows the read-only toggle only
ToggleErrorReadOnlyOnly(options) ==
    IF options.readOnly THEN "Error: config.options.readOnly is set to true" ELSE ""

\* the toggle guards of deleteCollection and dropIndex (src/app.js 539-546,
\* 606-613): the message of the first toggle that is set, "" when none is
ToggleError(options) ==
    IF options.readOnly THEN "Error: config.options.readOnly is set to true"
    ELSE IF options.noDelete THEN "Error: config.options.noDelete is set to true"
    ELSE ""

\* deleteCollection up to its first await (src/app.js 539-557); _getQuery is
\* called before the try block
DeleteCollectionStart(req) ==
    /\ pc = "idle"
    /\ handler' = "deleteCollection"
    /\ loc' = [req |-> req]
    /\ IF ToggleError(config) # ""
       THEN /\ session' = [session EXCEPT !.error = ToggleError(config)]
            /\ res' = Append(res, "redirect back")
            /\ pc' = "done"
            /\ UNCHANGED <<calls, escaped>>
       ELSE LET query == _getQuery(req)
            IN  IF ~query.ok
                THEN /\ escaped' = TRUE
                     /\ pc' = "done"
                     /\ UNCHANGED <<session, res, calls>>
                ELSE IF ObjectKeysLength(query.val) > 0
                THEN /\ Call("deleteMany", query.val)
                     /\ pc' = "delete_many"
                     /\ UNCHANGED <<session, res, escaped>>
                ELSE /\ Call("drop", Undefined)
                     /\ pc' = "delete_drop"
                     /\ UNCHANGED <<session, res, escaped>>
    /\ UNCHANGED store
    /\ PureVarsUnchanged

\* deleteMany settles (src/app.js 551-554, 562-566)
DeleteManyReturn ==
    /\ pc = "delete_many"
    /\ \E fail \in BOOLEAN :
        IF fail \/ LastCall.arg.t # "object"
        THEN /\ Catch("Something went wrong")
             /\ UNCHANGED store
        ELSE /\ store' = [store EXCEPT !.docs = SelectSeq(@, LAMBDA d : ~Matches(LastCall.arg, d))]
             /\ session' = [session EXCEPT !.success = "documents deleted"]
             /\ res' = Append(res, "redirect collection")
             /\ pc' = "done"
    /\ UNCHANGED <<handler, loc, calls, escaped>>
    /\ PureVarsUnchanged

\* drop settles (src/app.js 557-558, 562-566)
DeleteDropReturn ==
    /\ pc = "delete_drop"
    /\ \E fail \in BOOLEAN :
        IF fail \/ ~store.exists
        THEN /\ Catch("Something went wrong")
             /\ UNCHANGED <<store, calls>>
        ELSE /\ store' = [exists |-> FALSE, docs |-> <<>>]
             /\ Call("updateCollections", Undefined)
             /\ pc' = "delete_update"
             /\ UNCHANGED <<session, res>>
    /\ UNCHANGED <<handler, loc, escaped>>
    /\ PureVarsUnchanged

\* the refresh of the collection list settles (src/app.js 558-566)
DeleteUpdateReturn ==
    /\ pc = "delete_update"
    /\ \E fail \in BOOLEAN :
        IF fail
        THEN Catch("Something went wrong")
        ELSE /\ session' = [session EXCEPT !.success = "Collection deleted!"]
             /\ res' = Append(res, "redirect database")
             /\ pc' = "done"
    /\ UNCHANGED <<store, handler, loc, calls, escaped>>
    /\ PureVarsUnchanged

\* req.query.name of dropIndex: absent, or the name of an index
IndexNameSamples == {"", "a_1"}

\* dropIndex up to its await (src/app.js 602-614)
DropIndexStart(name) ==
    /\ pc = "idle"
    /\ handler' = "dropIndex"
    /\ loc' = [name |-> name]
    /\ IF name = ""
       THEN /\ session' = [session EXCEPT !.error = "Error: missing name parameter"]
            /\ res' = Append(res, "redirect back")
            /\ pc' = "done"
            /\ UNCHANGED calls
       ELSE IF ToggleError(config) # ""
       THEN /\ session' = [session EXCEPT !.error = ToggleError(config)]
            /\ res' = Append(res, "redirect back")
            /\ pc' = "done"
            /\ UNCHANGED calls
       ELSE /\ Call("dropIndex", name)
            /\ pc' = "drop_index"
            /\ UNCHANGED <<session, res>>
    /\ UNCHANGED <<store, escaped>>
    /\ PureVarsUnchanged

\* dropIndex settles (src/app.js 614-621): the store drops the index, or
\* rejects (no such index, no such collection, store unavailable); both ways
\* end in a redirect back.  No handler reads the set of indexes, and the store
\* record does not hold it.
DropIndexReturn ==
    /\ pc = "drop_index"
    /\ \E fail \in BOOLEAN :
        IF fail \/ ~store.exists
        THEN session' = [session EXCEPT !.error = "Error: the index is not dropped"]
        ELSE session' = [session EXCEPT !.success = "Index deleted!"]
    /\ res' = Append(res, "redirect back")
    /\ pc' = "done"
    /\ UNCHANGED <<store, handler, loc, calls, escaped>>
    /\ PureVarsUnchanged

\* the request is over; the next one starts from a clean slate
Finish ==
    /\ pc = "done"
    /\ pc' = "idle"
    /\ handler' = "none"
    /\ loc' = [none |-> TRUE]
    /\ session' = [error |-> "", success |-> ""]
    /\ res' = <<>>
    /\ calls' = <<>>
    /\ escaped' = FALSE
    /\ UNCHANGED store
    /\ PureVarsUnchanged

\* writes made by other requests while this one is in flight
OtherInsert(d) ==
    /\ Len(store.docs) < MaxDocs
    /\ \A i \in 1..Len(store.docs) : store.docs[i] # d
    /\ store' = [exists |-> TRUE, docs |-> Append(store.docs, d)]
    /\ UNCHANGED <<pc, handler, loc, session, res, calls, escaped>>
    /\ PureVarsUnchanged

OtherRemove(i) ==
    /\ i \in 1..Len(store.docs)
    /\ store' = [store EXCEPT !.docs = SubSeq(@, 1, i - 1) \o SubSeq(@, i + 1, Len(@))]
    /\ UNCHANGED <<pc, handler, loc, session, res, calls, escaped>>
    /\ PureVarsUnchanged

Next ==
    \/ \E req \in ViewRequests : ViewCollectionStart(req)
    \/ ViewAggregateReturn
    \/ ViewStatsReturn
    \/ ViewIndexesReturn
    \/ \E h \in ExportHandlers, req \in ExportRequests : ExportStart(h, req)
    \/ ExportFindReturn
    \/ \E req \in DeleteRequests : DeleteCollectionStart(req)
    \/ DeleteManyReturn
    \/ DeleteDropReturn
    \/ DeleteUpdateReturn
    \/ \E name \in IndexNameSamples : DropIndexStart(name)
    \/ DropIndexReturn
    \/ Finish
    \/ \E d \in DocSamples : OtherInsert(d)
    \/ \E i \in 1..MaxDocs : OtherRemove(i)

Spec == Init /\ [][Next]_vars

(***************************************************************************)
(* Properties of the handlers (Spec)                                       *)
(***************************************************************************)
InFlight == handler # "none"
FilterHandlers == {"viewCollection", "deleteCollection"} \cup ExportHandlers
StoreOps == {"aggregate", "find", "stats", "indexes", "deleteMany", "drop"}

\* the build-time failures of _getQuery: tag J with invalid JSON, an unknown
\* or missing tag, tag O with an invalid identifier (key and value present),
\* or a textual query the evaluator answers with null
GetQueryFails(req) ==
    IF req.key # "" /\ req.value # <<>>
    THEN \/ toUpperCase(req.type) = "J" /\ ~JsonParse(req.value).ok
         \/ toUpperCase(req.type) \notin ConverterTags
         \/ toUpperCase(req.type) = "O" /\ ~parseObjectId(req.value).ok
    ELSE req.query # "" /\ toSafeBSON(req.query) = Null

\* C1: in every handler that builds a filter, a request whose _getQuery fails
\* at build time invokes no store operation.
C1_NoStoreCallOnBuildFailure ==
    (InFlight /\ handler \in FilterHandlers /\ GetQueryFails(loc.req)) =>
        \A i \in 1..Len(calls) : calls[i].op \notin StoreOps

C1_Witness ==
    /\ pc = "done"
    /\ handler = "exportCsv"
    /\ loc.req.key = "a" /\ loc.req.value = <<"1">> /\ loc.req.type = "O"
    /\ session.error = "Invalid ObjectId"
    /\ calls = <<>>

\* C2: every error raised while a collection handler runs is caught in the
\* handler: no exception escapes, a finished request has sent exactly one
\* response and, when it did not succeed, has recorded an error message, and
\* no store call is made twice.
C2_AllErrorsCaught ==
    /\ ~escaped
    /\ pc = "done" =>
        /\ Len(res) = 1
        /\ (res[1] = "redirect back" /\ session.success = "") => session.error # ""
    /\ \A i, j \in 1..Len(calls) : calls[i].op = calls[j].op => i = j

Min(a, b) == IF a < b THEN a ELSE b
Max(a, b) == IF a > b THEN a ELSE b

\* C4: the count and the page of viewCollection come from one store call: for
\* skip >= 0 the items are the elements at positions [skip, skip+limit) of the
\* filtered, sorted, projected sequence as it was when the call ran, the count
\* is that sequence's length, and the page rendered has
\* min(limit, max(0, count - skip)) items whatever other requests write
\* meanwhile.
C4_CountAndPageFromOneCall ==
    /\ [][(pc = "view_aggregate" /\ pc' = "view_stats" /\ loc.queryOptions.skip.n >= 0) =>
            LET full == RunStages(LastCall.arg.ent[1].ent[1].v.ent[1].v.ent, store.docs).val
                skip == loc.queryOptions.skip.n
                size == Min(documentsPerPage, Max(0, Len(full) - skip))
            IN  /\ loc'.resultArray.metadata.total = Len(full)
                /\ loc'.resultArray.data = [i \in 1..size |-> full[skip + i]]]_vars
    /\ [](pc = "done" /\ "ctx" \in DOMAIN loc /\ loc.ctx.skip >= 0 =>
            /\ loc.ctx.limit = documentsPerPage
            /\ Len(loc.ctx.docs) = Min(loc.ctx.limit, Max(0, loc.ctx.count - loc.ctx.skip)))

C4_Witness ==
    /\ pc = "done"
    /\ "ctx" \in DOMAIN loc
    /\ loc.ctx.skip = 1
    /\ loc.ctx.count = 2
    /\ Len(loc.ctx.docs) = 1
    /\ loc.stats.count = 1
    /\ Len(store.docs) = 0

\* the filters handed to the store by a call
FiltersOfCall(c) ==
    CASE c.op = "aggregate" ->
            LET stages == c.arg.ent[1].ent[1].v.ent[1].v.ent
            IN  {stages[i].ent[1].v : i \in {j \in 1..Len(stages) : stages[j].ent[1].k = "$match"}}
      [] c.op = "find" -> {c.arg.filter}
      [] c.op = "deleteMany" -> {c.arg}
      [] OTHER -> {}

\* C7: a key/value filter with tag N and a value that is no numeric literal is
\* rejected before the store: no filter handed to aggregate, find or
\* deleteMany holds the not-a-number value.
C7_NoNaNReachesStore ==
    \A i \in 1..Len(calls) : \A f \in FiltersOfCall(calls[i]) :
        f.t = "object" => \A k \in 1..Len(f.ent) : f.ent[k].v # NaN

\* how often d occurs in the sequence q
Occurrences(d, q) == Cardinality({i \in 1..Len(q) : q[i] = d})

\* C13: an export handler calls find with the filter _getQuery builds (the
\* one the view is built from) and with options that hold the sort of _getSort
\* and nothing else: no skip, no limit.  A successful export outputs every
\* document of the collection that matches the filter exactly once, as the
\* store holds it and in the order of the sort; with an empty filter and no
\* sort the output is the collection in store order.
C13_ExportsWholeMatchingSet ==
    /\ [](pc = "export_find" =>
            LastCall = [op |-> "find",
                        arg |-> [filter |-> BuildAll(loc.req).queryBase.val,
                                 options |-> [sort |-> _getSort(loc.req)]]])
    /\ [][(pc = "export_find" /\ pc' = "done" /\ res' = <<"download">>) =>
            LET filter == BuildAll(loc.req).queryBase.val
                sort == _getSort(loc.req)
                matching == SelectSeq(store.docs, LAMBDA d : Matches(filter, d))
                items == loc'.items
            IN  /\ Len(items) = Len(matching)
                /\ \A d \in DocSamples : Occurrences(d, items) = Occurrences(d, matching)
                /\ \A i, j \in 1..Len(items) : i < j => ~Before(items[j], items[i], sort.ent)
                /\ (filter.ent = <<>> /\ sort.ent = <<>>) => items = store.docs]_vars

\* a sorted, filtered export of two documents, more than a page of the view,
\* the second with its oversized field as stored
C13_Witness ==
    /\ pc = "done"
    /\ handler = "exportCollection"
    /\ res = <<"download">>
    /\ loc.req.key = "a" /\ loc.req.type = "N"
    /\ loc.req.sort # <<>>
    /\ Len(loc.items) = 2
    /\ Len(loc.items) > documentsPerPage
    /\ loc.items[2] = Obj(<<KV("_id", Num(3)), KV("a", Num(1)),
                            KV("b", Str(Rep("a", 6 * SmallLen)))>>)
    /\ RedactItem(loc.items[2], ViewMaxPropSize, ViewMaxRowSize) # loc.items[2]

\* C14: every direction of the sort that _getSort returns, and of the $sort
\* stage of the plan, is +1 or -1, and the fields come in the order of the
\* request.
C14_SortDirections ==
    Built =>
        LET sort == bout.queryOptions.sort
        IN  /\ sort.t = "object"
            /\ [i \in 1..Len(sort.ent) |-> sort.ent[i].k] = [i \in 1..Len(breq.sort) |-> breq.sort[i].k]
            /\ \A i \in 1..Len(sort.ent) : sort.ent[i].v \in {Num(1), Num(-1)}
            /\ BuiltOk =>
                \A i \in 1..Len(PlanData) :
                    StageOp(PlanData[i]) = "$sort" /\ StageArg(PlanData[i]).t = "object" =>
                        \A j \in 1..Len(StageArg(PlanData[i]).ent) :
                            StageArg(PlanData[i]).ent[j].v \in {Num(1), Num(-1)}

WriteHandlers == {"deleteCollection", "dropIndex"}

\* C15: with readOnly or noDelete set, deleteCollection and dropIndex make no
\* call at all (no deleteMany, drop, dropIndex or refresh of the collection
\* list) and end with an error message and a redirect back, whatever the
\* request is.
C15_TogglesBlockWrites ==
    (handler \in WriteHandlers /\ (config.readOnly \/ config.noDelete)) =>
        /\ calls = <<>>
        /\ ~escaped
        /\ pc = "done"
        /\ res = <<"redirect back">>
        /\ session.error # ""
        /\ session.success = ""

\* dropIndex with an index name is refused because of noDelete alone
C15_Witness ==
    /\ handler = "dropIndex"
    /\ loc.name = "a_1"
    /\ ~config.readOnly /\ config.noDelete
    /\ pc = "done"
    /\ session.error = "Error: config.options.noDelete is set to true"
    /\ calls = <<>>

\* the operations called so far
OpsCalled == {calls[i].op : i \in 1..Len(calls)}

\* C16: with both toggles off, deleteCollection calls drop exactly when the
\* filter _getQuery built has no keys, and calls deleteMany with exactly that
\* filter, and nothing else, when it has a key; a request never has both.
C16_DropIffEmptyFilter ==
    (handler = "deleteCollection" /\ ~config.readOnly /\ ~config.noDelete) =>
        LET query == _getQuery(loc.req)
        IN  /\ ~({"drop", "deleteMany"} \subseteq OpsCalled)
            /\ IF ~query.ok THEN calls = <<>>
               ELSE IF query.val.ent = <<>>
               THEN /\ calls[1] = [op |-> "drop", arg |-> Undefined]
                    /\ "deleteMany" \notin OpsCalled
               ELSE calls = <<[op |-> "deleteMany", arg |-> query.val]>>

\* a key without a value and without a textual query drops the collection
C16_Witness ==
    /\ handler = "deleteCollection"
    /\ loc.req.key = "a" /\ loc.req.value = <<>> /\ loc.req.query = ""
    /\ pc = "done"
    /\ OpsCalled = {"drop", "updateCollections"}
    /\ session.success = "Collection deleted!"
    /\ ~store.exists

====
